---- MODULE Spec2Model ----
(***************************************************************************)
(* A model of sysctl-parser: the line classifier and document assembler of *)
(* src/src/lib.rs and the schema parser and validator of src/src/schema.rs.*)
(*                                                                         *)
(* Text is a sequence of one-character strings.  A ConfigValue is a record *)
(* whose kind is "Str" or "Table"; a BTreeMap is a function whose domain   *)
(* is its key set.  A nom IResult is a record whose tag is "Ok", "Error"   *)
(* (recoverable, Err::Error) or "Failure" (any other Err).                 *)
(***************************************************************************)
EXTENDS Integers, Sequences, FiniteSets, TLC

VARIABLES
    pc,      \* which call has run: "start" before it, the call's name after
    input,   \* the text handed to the call
    result,  \* what the call returned
    kvs,     \* the (key, value) settings folded into root so far
    root,    \* the root BTreeMap of the document
    schema,  \* the Vec<SchemeField> handed to validate_config
    config   \* the BTreeMap handed to validate_config

vars == <<pc, input, result, kvs, root, schema, config>>

----------------------------------------------------------------------------
(* Characters *)

LF == "\n"
CR == "\r"
TAB == "\t"

\* char::is_whitespace, on the characters the model draws from
is_whitespace(c) == c \in {" ", TAB, CR, LF}

\* All sequences over S of length at most n
SeqsUpTo(S, n) == UNION {[1..m -> S] : m \in 0..n}

\* s[from..] of Rust: the suffix starting at 1-based position from
SliceFrom(s, from) == SubSeq(s, from, Len(s))

NoResult == [tag |-> "None"]

----------------------------------------------------------------------------
(* Value model: lib.rs ConfigValue and BTreeMap *)

EmptyMap == [x \in {} |-> x]

Str(s) == [kind |-> "Str", str |-> s, table |-> EmptyMap]

Table(m) == [kind |-> "Table", str |-> <<>>, table |-> m]

\* BTreeMap::insert: bind k to v, replacing any previous binding
MapInsert(m, k, v) == [x \in (DOMAIN m) \cup {k} |-> IF x = k THEN v ELSE m[x]]

----------------------------------------------------------------------------
(* str::find, str::split and the trims *)

\* str::find(c): the first position of c in s, 0 for None
find(s, c) ==
    IF \E i \in 1..Len(s) : s[i] = c
    THEN CHOOSE i \in 1..Len(s) : s[i] = c /\ \A j \in 1..(i - 1) : s[j] # c
    ELSE 0

\* str::split(sep): every piece between separators, empty pieces included
RECURSIVE split(_, _)
split(s, sep) ==
    LET i == find(s, sep)
    IN IF i = 0 THEN <<s>>
       ELSE <<SubSeq(s, 1, i - 1)>> \o split(SliceFrom(s, i + 1), sep)

RECURSIVE trim_start(_)
trim_start(s) ==
    IF s # <<>> /\ is_whitespace(s[1]) THEN trim_start(Tail(s)) ELSE s

RECURSIVE trim_end(_)
trim_end(s) ==
    IF s # <<>> /\ is_whitespace(s[Len(s)])
    THEN trim_end(SubSeq(s, 1, Len(s) - 1))
    ELSE s

trim(s) == trim_end(trim_start(s))

----------------------------------------------------------------------------
(* lib.rs: insert_nested_key / insert_recursive *)

\* A last-segment insert that keeps an existing entry (entry().or_insert)
InsertLeafKeepExisting(current_map, key, val) ==
    IF key \in DOMAIN current_map THEN current_map
    ELSE MapInsert(current_map, key, Str(val))

\* lib.rs:24: current_map.insert(parts[0], ConfigValue::Str(val))
InsertLeaf(current_map, key, val) == MapInsert(current_map, key, Str(val))

\* A leaf branch that leaves the existing leaf in place instead of replacing it
ReplaceLeafKeepLeaf(current_map, head, new_map) == current_map

\* lib.rs:38-40: *existing_value = ConfigValue::Table(new_map)
ReplaceLeaf(current_map, head, new_map) == MapInsert(current_map, head, Table(new_map))

\* An insert whose table branch descends into a fresh map instead of the
\* existing sub-map, so the entries already under head are lost
RECURSIVE insert_recursive_fresh(_, _, _)
insert_recursive_fresh(current_map, parts, val) ==
    IF Len(parts) = 1
    THEN InsertLeaf(current_map, parts[1], val)
    ELSE MapInsert(current_map, parts[1],
             Table(insert_recursive_fresh(EmptyMap, Tail(parts), val)))

RECURSIVE insert_recursive(_, _, _)
insert_recursive(current_map, parts, val) ==
    IF Len(parts) = 1
    THEN InsertLeaf(current_map, parts[1], val)
    ELSE LET head == parts[1]
             tail == Tail(parts)
         IN IF head \in DOMAIN current_map
            THEN IF current_map[head].kind = "Table"
                 THEN MapInsert(current_map, head,
                          Table(insert_recursive(current_map[head].table, tail, val)))
                 ELSE ReplaceLeaf(current_map, head,
                          insert_recursive(EmptyMap, tail, val))
            ELSE MapInsert(current_map, head,
                     Table(insert_recursive(EmptyMap, tail, val)))

\* A split that drops empty pieces, as split('.').filter(|p| !p.is_empty()) would
KeyPartsSkipEmpty(key) ==
    LET kept == SelectSeq(split(key, "."), LAMBDA p : p # <<>>)
    IN IF kept = <<>> THEN <<key>> ELSE kept

\* lib.rs:18: key.split('.').collect()
KeyParts(key) == split(key, ".")

insert_nested_key(r, key, val) == insert_recursive(r, KeyParts(key), val)

----------------------------------------------------------------------------
(* lib.rs: the fold of parse_sysctl_conf_to_nested, one setting at a time *)

MaxKeyLen == 2
MaxSettings == 3

KeyChars == {"a", "."}
Keys == SeqsUpTo(KeyChars, MaxKeyLen)
Values == {<<"x">>, <<"y">>}

FoldInit ==
    /\ pc = "fold"
    /\ input = <<>>
    /\ result = NoResult
    /\ kvs = <<>>
    /\ root = EmptyMap
    /\ schema = <<>>
    /\ config = EmptyMap

\* lib.rs:119-121: one iteration of `for (k, v) in kvs`
InsertSetting(k, v) ==
    /\ pc = "fold"
    /\ Len(kvs) < MaxSettings
    /\ kvs' = Append(kvs, <<k, v>>)
    /\ root' = insert_nested_key(root, k, v)
    /\ UNCHANGED <<pc, input, result, schema, config>>

FoldNext == \E k \in Keys, v \in Values : InsertSetting(k, v)

SpecFold == FoldInit /\ [][FoldNext]_vars

----------------------------------------------------------------------------
(* nom: IResult and the combinators lib.rs and schema.rs call *)

Ok(rest, out) == [tag |-> "Ok", rest |-> rest, out |-> out]

\* Err(Err::Error(..)): the recoverable error of a parser that does not match
Error(at, kind) == [tag |-> "Error", rest |-> at, out |-> kind]

\* take_till(|c| c == '\r' || c == '\n'): the longest prefix without CR or LF
take_till_eol(i) ==
    LET stops == {n \in 1..Len(i) : i[n] \in {CR, LF}}
        n == IF stops = {} THEN Len(i) + 1
             ELSE CHOOSE x \in stops : \A y \in stops : x <= y
    IN Ok(SliceFrom(i, n), SubSeq(i, 1, n - 1))

\* character::complete::line_ending: "\n" or "\r\n", else Err::Error(CrLf)
line_ending(i) ==
    IF Len(i) >= 1 /\ i[1] = LF THEN Ok(SliceFrom(i, 2), <<LF>>)
    ELSE IF Len(i) >= 2 /\ i[1] = CR /\ i[2] = LF THEN Ok(SliceFrom(i, 3), <<CR, LF>>)
    ELSE Error(i, "CrLf")

\* combinator::opt applied to the result r of a parser run on i
opt(r, i) == IF r.tag = "Error" THEN Ok(i, <<>>) ELSE r

----------------------------------------------------------------------------
(* lib.rs: the line classifier *)

Comment(text) == [kind |-> "Comment", key |-> <<>>, value |-> <<>>, text |-> text]

Setting(k, v) == [kind |-> "Setting", key |-> k, value |-> v, text |-> <<>>]

Empty == [kind |-> "Empty", key |-> <<>>, value |-> <<>>, text |-> <<>>]

\* A search for the last '=' instead of the first (str::rfind)
FindEqLast(trimmed) ==
    IF \E i \in 1..Len(trimmed) : trimmed[i] = "="
    THEN CHOOSE i \in 1..Len(trimmed) :
             trimmed[i] = "=" /\ \A j \in (i + 1)..Len(trimmed) : trimmed[j] # "="
    ELSE 0

\* lib.rs:73: trimmed.find('=')
FindEq(trimmed) == find(trimmed, "=")

parse_line_content(i) ==
    LET trimmed == trim_start(i)
        eq_pos == FindEq(trimmed)
    IN IF trimmed = <<>> THEN Ok(<<>>, Empty)
       ELSE IF trimmed[1] = "#" THEN Ok(<<>>, Comment(trim(SliceFrom(trimmed, 2))))
       ELSE IF eq_pos # 0
            THEN Ok(<<>>, Setting(trim(SubSeq(trimmed, 1, eq_pos - 1)),
                                  trim(SliceFrom(trimmed, eq_pos + 1))))
       ELSE Ok(<<>>, Empty)

\* lib.rs:90-91: parse_line_content(line_str)?, then Ok((remaining, parsed))
ParseLineContent(line_str, remaining) ==
    IF parse_line_content(line_str).tag # "Ok" THEN parse_line_content(line_str)
    ELSE Ok(remaining, parse_line_content(line_str).out)

\* lib.rs:88-91: what follows take_till(..)(input)?, t being its result
AfterTakeTill(t) ==
    IF t.tag # "Ok" THEN t ELSE ParseLineContent(t.out, t.rest)

parse_line(i) == AfterTakeTill(take_till_eol(i))

----------------------------------------------------------------------------
(* schema.rs: the schema line parser *)

BoolToken == <<"b", "o", "o", "l">>
StringToken == <<"s", "t", "r", "i", "n", "g">>
Arrow == <<"-", ">">>

\* char::is_alphanumeric, on the characters the model draws from
is_alphanumeric(c) == c \in {"a", "b", "o", "l", "s", "t", "r", "i", "n", "g"}

\* bytes::complete::tag(t): t as a prefix of the input, else Err::Error(Tag)
tag(t, i) ==
    IF Len(i) >= Len(t) /\ SubSeq(i, 1, Len(t)) = t
    THEN Ok(SliceFrom(i, Len(t) + 1), t)
    ELSE Error(i, "Tag")

IsIdentChar(c) == is_alphanumeric(c) \/ c = "_"

IsSpaceOrTab(c) == c \in {" ", TAB}

\* bytes::complete::take_while1(is_alphanumeric or '_'): a non-empty longest
\* prefix, else Err::Error(TakeWhile1)
take_while1_ident(i) ==
    LET stops == {n \in 1..Len(i) : ~IsIdentChar(i[n])}
        n == IF stops = {} THEN Len(i)
             ELSE (CHOOSE x \in stops : \A y \in stops : x <= y) - 1
    IN IF n = 0 THEN Error(i, "TakeWhile1")
       ELSE Ok(SliceFrom(i, n + 1), SubSeq(i, 1, n))

\* character::complete::space0: zero or more spaces and tabs
space0(i) ==
    LET stops == {n \in 1..Len(i) : ~IsSpaceOrTab(i[n])}
        n == IF stops = {} THEN Len(i)
             ELSE (CHOOSE x \in stops : \A y \in stops : x <= y) - 1
    IN Ok(SliceFrom(i, n + 1), SubSeq(i, 1, n))

\* schema.rs:26-31: alt((map(tag("bool"), Bool), map(tag("string"), String)))
parse_field_type(i) ==
    LET b == tag(BoolToken, i)
        st == tag(StringToken, i)
    IN IF b.tag = "Ok" THEN Ok(b.rest, "Bool")
       ELSE IF b.tag # "Error" THEN b
       ELSE IF st.tag = "Ok" THEN Ok(st.rest, "String")
       ELSE st

parse_identifier(i) == take_while1_ident(i)

SchemeField(name, field_type) == [name |-> name, field_type |-> field_type]

\* schema.rs:38-48: schema::parse_line
schema_parse_line(i) ==
    LET id == parse_identifier(i)
    IN IF id.tag # "Ok" THEN id
       ELSE LET s1 == space0(id.rest)
                ar == tag(Arrow, s1.rest)
            IN IF ar.tag # "Ok" THEN ar
               ELSE LET s2 == space0(ar.rest)
                        ft == parse_field_type(s2.rest)
                    IN IF ft.tag # "Ok" THEN ft
                       ELSE Ok(ft.rest, SchemeField(id.out, ft.out))

----------------------------------------------------------------------------
(* nom::multi::separated_list0(line_ending, f), as both parsers call it *)

\* The element parser f of the call: parse_line of lib.rs:98 or of schema.rs:51
ParseElement(f, i) ==
    IF f = "parse_line" THEN parse_line(i) ELSE schema_parse_line(i)

RECURSIVE separated_list0_loop(_, _, _)

\* The match on the element's result e, the list so far ending at i: a
\* recoverable error ends the list at i, any other error is returned, an
\* element is pushed and the loop goes on after it
ElementResult(f, e, i, res) ==
    IF e.tag = "Error" THEN Ok(i, res)
    ELSE IF e.tag # "Ok" THEN e
    ELSE separated_list0_loop(f, e.rest, Append(res, e.out))

\* The match on the separator's result s at i: a recoverable error ends the
\* list, a separator that consumed nothing is an error, else an element follows
SeparatorResult(f, s, i, res) ==
    IF s.tag = "Error" THEN Ok(i, res)
    ELSE IF s.tag # "Ok" THEN s
    ELSE IF Len(s.rest) = Len(i) THEN Error(s.rest, "SeparatedList")
    ELSE ElementResult(f, ParseElement(f, s.rest), i, res)

separated_list0_loop(f, i, res) == SeparatorResult(f, line_ending(i), i, res)

separated_list0(f, i) == ElementResult(f, ParseElement(f, i), i, <<>>)

----------------------------------------------------------------------------
(* lib.rs: parse_config_lines and parse_sysctl_conf_to_nested *)

\* lib.rs:102-107: keep the Settings, as (key, value) pairs
RECURSIVE FilterSettings(_)
FilterSettings(lines) ==
    IF lines = <<>> THEN <<>>
    ELSE (IF lines[1].kind = "Setting"
          THEN << <<lines[1].key, lines[1].value>> >>
          ELSE <<>>) \o FilterSettings(Tail(lines))

\* The trailing terminator required instead of optional (line_ending without opt)
TrailingLineEndingRequired(remaining) == line_ending(remaining)

\* lib.rs:110: nom::combinator::opt(line_ending)(remaining)
TrailingLineEnding(remaining) == opt(line_ending(remaining), remaining)

\* lib.rs:110-112: the `?` on the trailing terminator's result o, then Ok
AfterTrailing(o, settings) ==
    IF o.tag # "Ok" THEN o ELSE Ok(o.rest, settings)

\* lib.rs:95-112: what follows separated_list0(..)(input)?, l being its result
AfterLines(l) ==
    IF l.tag # "Ok" THEN l
    ELSE AfterTrailing(TrailingLineEnding(l.rest), FilterSettings(l.out))

parse_config_lines(i) == AfterLines(separated_list0("parse_line", i))

\* lib.rs:118-121: the whole fold of the settings into a fresh root
RECURSIVE FoldSettings(_, _)
FoldSettings(r, settings) ==
    IF settings = <<>> THEN r
    ELSE FoldSettings(insert_nested_key(r, settings[1][1], settings[1][2]),
                      Tail(settings))

\* lib.rs:116-125: the match on the result p of parse_config_lines; the
\* Result is tag "Ok" with the document (and the settings folded), or tag "Err"
MatchParsed(p) ==
    IF p.tag = "Ok"
    THEN [tag |-> "Ok", map |-> FoldSettings(EmptyMap, p.out), settings |-> p.out]
    ELSE [tag |-> "Err", map |-> EmptyMap, settings |-> <<>>]

parse_sysctl_conf_to_nested(i) == MatchParsed(parse_config_lines(i))

\* Result::unwrap: panics on Err
Unwrap(r) == [panicked |-> r.tag # "Ok", map |-> r.map, returned |-> r]

\* lib.rs:132-134
parse_to_map(i) == Unwrap(parse_sysctl_conf_to_nested(i))

----------------------------------------------------------------------------
(* schema.rs: parse_scheme and parse *)

\* schema.rs:50-52: schema::parse_scheme
parse_scheme(i) == separated_list0("schema::parse_line", i)

\* schema.rs:54-57: schema::parse; expect panics on Err
schema_parse(i) ==
    LET r == parse_scheme(i)
    IN [panicked |-> r.tag # "Ok", fields |-> IF r.tag = "Ok" THEN r.out ELSE <<>>]

----------------------------------------------------------------------------
(* The assembler run on a text *)

MaxLen == 4

Chars == {"a", ".", "=", "#", " ", CR, LF}
Texts == SeqsUpTo(Chars, MaxLen)

Init ==
    /\ pc = "start"
    /\ input \in Texts
    /\ result = NoResult
    /\ kvs = <<>>
    /\ root = EmptyMap
    /\ schema = <<>>
    /\ config = EmptyMap

\* parse_line_content on one physical line: a text without terminators
Classify ==
    /\ pc = "start"
    /\ \A n \in 1..Len(input) : input[n] \notin {CR, LF}
    /\ result' = parse_line_content(input)
    /\ pc' = "classified"
    /\ UNCHANGED <<input, kvs, root, schema, config>>

\* parse_to_map has returned or panicked with u
Returned(u) ==
    /\ result' = [tag |-> u.returned.tag, panicked |-> u.panicked]
    /\ kvs' = u.returned.settings
    /\ root' = u.map

\* parse_to_map on the whole text
ParseConf ==
    /\ pc = "start"
    /\ Returned(parse_to_map(input))
    /\ pc' = "parsed"
    /\ UNCHANGED <<input, schema, config>>

Next == Classify \/ ParseConf

Spec == Init /\ [][Next]_vars

----------------------------------------------------------------------------
(* The schema parser run on a text *)

MaxChunks == 5

Chunks == {<<"a">>, <<" ">>, <<"-">>, Arrow, BoolToken, StringToken, <<LF>>, <<CR, LF>>}

RECURSIVE Flatten(_)
Flatten(chunks) ==
    IF chunks = <<>> THEN <<>> ELSE chunks[1] \o Flatten(Tail(chunks))

SchemaTexts == {Flatten(cs) : cs \in SeqsUpTo(Chunks, MaxChunks)}

SchemaInit ==
    /\ pc = "start"
    /\ input \in SchemaTexts
    /\ result = NoResult
    /\ kvs = <<>>
    /\ root = EmptyMap
    /\ schema = <<>>
    /\ config = EmptyMap

\* schema::parse_line on the text
SchemaParseLine ==
    /\ pc = "start"
    /\ result' = schema_parse_line(input)
    /\ pc' = "line"
    /\ UNCHANGED <<input, kvs, root, schema, config>>

\* schema::parse on the text, with the IResult of parse_scheme it unwraps
SchemaParse ==
    /\ pc = "start"
    /\ result' = [tag |-> parse_scheme(input).tag,
                  rest |-> parse_scheme(input).rest,
                  panicked |-> schema_parse(input).panicked]
    /\ schema' = schema_parse(input).fields
    /\ pc' = "scheme"
    /\ UNCHANGED <<input, kvs, root, config>>

SchemaNext == SchemaParseLine \/ SchemaParse

SpecSchema == SchemaInit /\ [][SchemaNext]_vars

----------------------------------------------------------------------------
(* schema.rs: validate_config *)

TrueStr == <<"t", "r", "u", "e">>
FalseStr == <<"f", "a", "l", "s", "e">>

OkUnit == [tag |-> "Ok", error |-> "", field |-> <<>>, detail |-> ""]

\* Err(format!(..)): the message's kind, the field it names, and its wording
Err(error, field, detail) ==
    [tag |-> "Err", error |-> error, field |-> field, detail |-> detail]

\* A Bool check that takes any leaf for a bool
CheckBoolAnyLeaf(field_name, value) ==
    IF value.kind = "Str" THEN OkUnit
    ELSE Err("WrongType", field_name, "must be a bool, but found a nested table")

\* schema.rs:79-97: SchemeType::Bool
CheckBool(field_name, value) ==
    IF value.kind = "Str"
    THEN IF value.str # TrueStr /\ value.str # FalseStr
         THEN Err("WrongType", field_name, "must be a bool ('true'/'false')")
         ELSE OkUnit
    ELSE Err("WrongType", field_name, "must be a bool, but found a nested table")

\* schema.rs:98-110: SchemeType::String
CheckString(field_name, value) ==
    IF value.kind = "Str" THEN OkUnit
    ELSE Err("WrongType", field_name, "must be a string, but found a nested table")

\* schema.rs:66-111: the body of `for field in schema`
ValidateField(field, cfg) ==
    IF field.name \notin DOMAIN cfg
    THEN Err("MissingField", field.name, "Missing required field")
    ELSE IF field.field_type = "Bool" THEN CheckBool(field.name, cfg[field.name])
    ELSE CheckString(field.name, cfg[field.name])

RECURSIVE validate_config(_, _)
validate_config(fields, cfg) ==
    IF fields = <<>> THEN OkUnit
    ELSE LET r == ValidateField(fields[1], cfg)
         IN IF r.tag = "Err" THEN r ELSE validate_config(Tail(fields), cfg)

----------------------------------------------------------------------------
(* The validator run on a schema and a document *)

MaxFields == 3

FieldNames == {<<"a">>, <<"b">>}
Fields == {SchemeField(n, t) : n \in FieldNames, t \in {"Bool", "String"}}
Schemas == SeqsUpTo(Fields, MaxFields)

ConfigValues == {Str(TrueStr), Str(FalseStr), Str(<<"T", "r", "u", "e">>),
                 Table([x \in {<<"a">>} |-> Str(TrueStr)])}
Configs == UNION {[S -> ConfigValues] : S \in SUBSET FieldNames}

ValidateInit ==
    /\ pc = "start"
    /\ input = <<>>
    /\ result = NoResult
    /\ kvs = <<>>
    /\ root = EmptyMap
    /\ schema \in Schemas
    /\ config \in Configs

Validate ==
    /\ pc = "start"
    /\ result' = validate_config(schema, config)
    /\ pc' = "validated"
    /\ UNCHANGED <<input, kvs, root, schema, config>>

ValidateNext == Validate

SpecValidate == ValidateInit /\ [][ValidateNext]_vars

----------------------------------------------------------------------------
(* Paths, stated without the code's split: used by the properties below *)

DotCount(key) == Cardinality({i \in 1..Len(key) : key[i] = "."})

\* Position of the k-th dot of key; 0 before the first, Len + 1 after the last
NthDot(key, k) ==
    IF k = 0 THEN 0
    ELSE IF k > DotCount(key) THEN Len(key) + 1
    ELSE CHOOSE i \in 1..Len(key) :
             key[i] = "." /\ Cardinality({j \in 1..i : key[j] = "."}) = k

\* The dotted key path of key: the texts between consecutive dots
Path(key) ==
    [k \in 1..(DotCount(key) + 1) |->
        SubSeq(key, NthDot(key, k - 1) + 1, NthDot(key, k) - 1)]

IsPrefix(p, q) == Len(p) <= Len(q) /\ SubSeq(q, 1, Len(p)) = p

Related(p, q) == IsPrefix(p, q) \/ IsPrefix(q, p)

Absent == [kind |-> "Absent", str |-> <<>>, table |-> EmptyMap]

\* What the document m holds at path p
RECURSIVE Resolve(_, _)
Resolve(m, p) ==
    IF p[1] \notin DOMAIN m THEN Absent
    ELSE IF Len(p) = 1 THEN m[p[1]]
    ELSE IF m[p[1]].kind = "Table" THEN Resolve(m[p[1]].table, Tail(p))
    ELSE Absent

\* The map holding nothing but the leaf v at path p
RECURSIVE ChainMap(_, _)
ChainMap(p, v) ==
    IF Len(p) = 1 THEN [x \in {p[1]} |-> Str(v)]
    ELSE [x \in {p[1]} |-> Table(ChainMap(Tail(p), v))]

RECURSIVE SumOver(_, _)
SumOver(S, f) ==
    IF S = {} THEN 0
    ELSE LET x == CHOOSE y \in S : TRUE IN f[x] + SumOver(S \ {x}, f)

\* Number of Table values anywhere inside map m
RECURSIVE TableCount(_)
TableCount(m) ==
    SumOver(DOMAIN m,
        [x \in DOMAIN m |->
            IF m[x].kind = "Table" THEN 1 + TableCount(m[x].table) ELSE 0])

\* Number of Str values anywhere inside map m
RECURSIVE LeafCount(_)
LeafCount(m) ==
    SumOver(DOMAIN m,
        [x \in DOMAIN m |->
            IF m[x].kind = "Table" THEN LeafCount(m[x].table) ELSE 1])

KeyAt(i) == kvs[i][1]
ValAt(i) == kvs[i][2]

\* No setting strictly between i and j, and none after j, is on a path related to p
OthersUnrelated(i, j, p) ==
    \A k \in ((i + 1)..(j - 1)) \cup ((j + 1)..Len(kvs)) :
        ~Related(Path(KeyAt(k)), p)

----------------------------------------------------------------------------
(* Properties of the fold *)

\* C3: last writer wins. Of two settings with the same full dotted key path,
\* where the settings between them are on unrelated paths and no later setting
\* touches the path, the later one's value is the leaf the document holds there.
C3_LastWriterWins ==
    \A i \in 1..Len(kvs) : \A j \in (i + 1)..Len(kvs) :
        (KeyAt(i) = KeyAt(j) /\ OthersUnrelated(i, j, Path(KeyAt(j))))
            => Resolve(root, Path(KeyAt(j))) = Str(ValAt(j))

\* Two settings of the same key with different values, an unrelated one between
C3_Witness ==
    /\ Len(kvs) = 3
    /\ KeyAt(1) = KeyAt(3)
    /\ ValAt(1) # ValAt(3)
    /\ ~Related(Path(KeyAt(2)), Path(KeyAt(3)))
    /\ Resolve(root, Path(KeyAt(3))) = Str(ValAt(3))

\* C4: leaf/table conflicts are overwritten silently in both directions.
\* p = x then p.q = y (nothing else on a path related to p in between or after)
\* leaves p a table holding only the leaf y at q; p.q = y then p = x (nothing
\* related to p after) leaves p the leaf x.
C4_ConflictOverwrite ==
    \A i \in 1..Len(kvs) : \A j \in (i + 1)..Len(kvs) :
        LET pi == Path(KeyAt(i))
            pj == Path(KeyAt(j))
        IN /\ (IsPrefix(pi, pj) /\ Len(pi) < Len(pj) /\ OthersUnrelated(i, j, pi))
                => Resolve(root, pi) =
                       Table(ChainMap(SubSeq(pj, Len(pi) + 1, Len(pj)), ValAt(j)))
           /\ (IsPrefix(pj, pi) /\ Len(pj) < Len(pi) /\ OthersUnrelated(j, j, pj))
                => Resolve(root, pj) = Str(ValAt(j))

\* A leaf at p, an unrelated setting, then a setting two segments below p
C4_Witness ==
    /\ Len(kvs) = 3
    /\ Len(Path(KeyAt(3))) = Len(Path(KeyAt(1))) + 2
    /\ IsPrefix(Path(KeyAt(1)), Path(KeyAt(3)))
    /\ ~Related(Path(KeyAt(2)), Path(KeyAt(1)))
    /\ Resolve(root, Path(KeyAt(1))).kind = "Table"

\* C8: a key of n dot-separated segments inserted into an empty root gives n-1
\* nested single-entry tables and one leaf with the value at the full path;
\* every dot separates, so empty segments are keys like any other.
C8_DottedPathDepth ==
    Len(kvs) = 1 =>
        /\ root = ChainMap(Path(KeyAt(1)), ValAt(1))
        /\ TableCount(root) = DotCount(KeyAt(1))
        /\ LeafCount(root) = 1
        /\ Resolve(root, Path(KeyAt(1))) = Str(ValAt(1))

\* A key with a trailing dot: one table keyed "a" holding a leaf keyed ""
C8_Witness ==
    /\ Len(kvs) = 1
    /\ KeyAt(1) = <<"a", ".">>
    /\ TableCount(root) = 1
    /\ Resolve(root, << <<"a">>, <<>> >>) = Str(ValAt(1))

----------------------------------------------------------------------------
(* Physical lines, stated without the code's parser: used by the properties *)

MinOf(S) == CHOOSE x \in S : \A y \in S : x <= y
MaxOf(S) == CHOOSE x \in S : \A y \in S : x >= y

Range(s) == {s[n] : n \in 1..Len(s)}

\* s without its leading and trailing whitespace
Trimmed(s) ==
    LET solid == {n \in 1..Len(s) : ~is_whitespace(s[n])}
    IN IF solid = {} THEN <<>> ELSE SubSeq(s, MinOf(solid), MaxOf(solid))

\* The physical lines of t, each with the terminator ("\n" or "\r\n") that ends
\* it; the text after the last terminator is a line only if it is not empty
RECURSIVE PhysicalLines(_)
PhysicalLines(t) ==
    LET lfs == {n \in 1..Len(t) : t[n] = LF}
    IN IF lfs = {}
       THEN (IF t = <<>> THEN <<>> ELSE <<[content |-> t, term |-> <<>>]>>)
       ELSE LET n == MinOf(lfs)
                crlf == n >= 2 /\ t[n - 1] = CR
                line == IF crlf
                        THEN [content |-> SubSeq(t, 1, n - 2), term |-> <<CR, LF>>]
                        ELSE [content |-> SubSeq(t, 1, n - 1), term |-> <<LF>>]
            IN <<line>> \o PhysicalLines(SliceFrom(t, n + 1))

\* The (key, value) pairs of the lines classified Setting, in order
RECURSIVE SettingsOfLines(_)
SettingsOfLines(lines) ==
    IF lines = <<>> THEN <<>>
    ELSE LET c == parse_line_content(lines[1].content).out
         IN (IF c.kind = "Setting" THEN << <<c.key, c.value>> >> ELSE <<>>)
                \o SettingsOfLines(Tail(lines))

\* A comment-only line or a blank (whitespace-only) line
CommentOrBlank(line) ==
    LET t == Trimmed(line.content) IN t = <<>> \/ t[1] = "#"

RECURSIVE Concat(_)
Concat(lines) ==
    IF lines = <<>> THEN <<>>
    ELSE lines[1].content \o lines[1].term \o Concat(Tail(lines))

\* t with every comment-only and blank line deleted, terminator included
WithoutCommentsAndBlanks(t) ==
    Concat(SelectSeq(PhysicalLines(t), LAMBDA l : ~CommentOrBlank(l)))

\* t holds a carriage return that is not followed by a line feed
HasLoneCR(t) ==
    \E n \in 1..Len(t) : t[n] = CR /\ (n = Len(t) \/ t[n + 1] # LF)

----------------------------------------------------------------------------
(* Properties of the assembler *)

\* C2: the settings folded into the document are exactly the Setting
\* classifications of all physical lines of the input (split on "\n" or
\* "\r\n"), in input order; a lone carriage return is line content.
C2_AllLinesClassified ==
    pc = "parsed" => kvs = SettingsOfLines(PhysicalLines(input))

\* The same, for the texts in which every carriage return precedes a line feed
C2_HoldsWithoutLoneCR ==
    (pc = "parsed" /\ ~HasLoneCR(input))
        => kvs = SettingsOfLines(PhysicalLines(input))

\* C6: parse_line_content is total and classifies by: leading whitespace
\* trimmed; empty -> Empty; leading '#' -> Comment; else the FIRST '=' splits
\* the trimmed key from the trimmed value -> Setting; else Empty.
C6_ClassifierTotal ==
    pc = "classified" =>
        LET solid == {n \in 1..Len(input) : ~is_whitespace(input[n])}
            t == IF solid = {} THEN <<>> ELSE SliceFrom(input, MinOf(solid))
            eqs == {n \in 1..Len(t) : t[n] = "="}
        IN /\ result.tag = "Ok"
           /\ result.rest = <<>>
           /\ result.out =
                 IF t = <<>> THEN Empty
                 ELSE IF t[1] = "#" THEN Comment(Trimmed(Tail(t)))
                 ELSE IF eqs # {}
                      THEN Setting(Trimmed(SubSeq(t, 1, MinOf(eqs) - 1)),
                                   Trimmed(SliceFrom(t, MinOf(eqs) + 1)))
                 ELSE Empty

\* An indented setting line whose value keeps a later '='
C6_Witness ==
    /\ pc = "classified"
    /\ input # <<>>
    /\ input[1] = " "
    /\ result.out.kind = "Setting"
    /\ result.out.key # <<>>
    /\ "=" \in Range(result.out.value)

\* C7: deleting every comment-only line and every blank line from the input
\* leaves the parsed document unchanged.
C7_CommentBlankTransparency ==
    pc = "parsed" =>
        root = parse_sysctl_conf_to_nested(WithoutCommentsAndBlanks(input)).map

\* The same, for the texts in which every carriage return precedes a line feed
C7_HoldsWithoutLoneCR ==
    (pc = "parsed" /\ ~HasLoneCR(input))
        => root = parse_sysctl_conf_to_nested(WithoutCommentsAndBlanks(input)).map

\* C10: parse_sysctl_conf_to_nested returns Ok for every text, so the unwrap
\* in parse_to_map never panics.
C10_AssemblyInfallible ==
    pc = "parsed" => (result.tag = "Ok" /\ ~result.panicked)

\* A malformed line with no terminator after it, parsed to an empty document
C10_Witness ==
    /\ pc = "parsed"
    /\ input # <<>>
    /\ input[Len(input)] = "a"
    /\ "=" \notin Range(input)
    /\ result.tag = "Ok"
    /\ root = EmptyMap

----------------------------------------------------------------------------
(* Properties of the schema parser *)

AllIdent(s) == \A n \in 1..Len(s) : IsIdentChar(s[n])

AllSpace(s) == \A n \in 1..Len(s) : IsSpaceOrTab(s[n])

\* l is <identifier> [spaces] -> [spaces] bool|string, and nothing else
LineMatches(l) ==
    \E a \in 1..Len(l) : \E b \in a..Len(l) : \E c \in (b + 2)..Len(l) :
        /\ AllIdent(SubSeq(l, 1, a))
        /\ AllSpace(SubSeq(l, a + 1, b))
        /\ SubSeq(l, b + 1, b + 2) = Arrow
        /\ AllSpace(SubSeq(l, b + 3, c))
        /\ SliceFrom(l, c + 1) \in {BoolToken, StringToken}

\* C1: parsing a schema document is all-or-nothing: if at least one line
\* does not match `<identifier> -> bool|string`, the parse returns an error
\* and yields no list of fields.
C1_SchemaAllOrNothing ==
    (pc = "scheme"
        /\ \E n \in 1..Len(PhysicalLines(input)) :
               ~LineMatches(PhysicalLines(input)[n].content))
    => (result.tag # "Ok" /\ result.panicked)

\* A document whose lines all match parses to one field per line
C1_GoodSchemaParses ==
    (pc = "scheme"
        /\ \A n \in 1..Len(PhysicalLines(input)) :
               LineMatches(PhysicalLines(input)[n].content))
    => (result.tag = "Ok" /\ Len(schema) = Len(PhysicalLines(input)))

\* C9: schema::parse_line returns a field only for a line that is an
\* identifier, optional spaces, `->`, optional spaces and exactly `bool` or
\* `string`; for every other line it returns a parse error.
C9_SchemaLineStrict ==
    (pc = "line" /\ CR \notin Range(input) /\ LF \notin Range(input))
        => (result.tag = "Ok" <=> LineMatches(input))

\* Every line that matches is accepted whole, and a line is rejected when its
\* identifier is empty, its arrow is missing or its type does not start with
\* one of the two literals
C9_MatchingLineAccepted ==
    pc = "line" =>
        /\ LineMatches(input) => (result.tag = "Ok" /\ result.rest = <<>>)
        /\ result.tag = "Ok" =>
               \E n \in 1..Len(input) : LineMatches(SubSeq(input, 1, n))

----------------------------------------------------------------------------
(* Properties of the validator *)

FieldFails(f) ==
    \/ f.name \notin DOMAIN config
    \/ f.field_type = "Bool"
           /\ (config[f.name].kind = "Table"
               \/ config[f.name].str \notin {TrueStr, FalseStr})
    \/ f.field_type = "String" /\ config[f.name].kind = "Table"

Failing == {n \in 1..Len(schema) : FieldFails(schema[n])}

\* C5: validate_config returns the error of the first field, in declaration
\* order, that fails (missing-field when the name is no direct key of the root,
\* wrong-type otherwise) and success only if no field fails; the fields after
\* the first failing one do not influence the result.
C5_FirstFailingField ==
    pc = "validated" =>
        IF Failing = {} THEN result.tag = "Ok"
        ELSE LET n == MinOf(Failing)
             IN /\ result.tag = "Err"
                /\ result.field = schema[n].name
                /\ result.error = IF schema[n].name \in DOMAIN config
                                  THEN "WrongType" ELSE "MissingField"
                /\ result = validate_config(SubSeq(schema, 1, n), config)

\* A passing field, then a Bool field holding a leaf that is not a bool, then
\* a field that is missing
C5_Witness ==
    /\ pc = "validated"
    /\ Len(schema) = 3
    /\ Failing = {2, 3}
    /\ schema[2].field_type = "Bool"
    /\ schema[2].name \in DOMAIN config
    /\ config[schema[2].name].kind = "Str"
    /\ schema[3].name \notin DOMAIN config
    /\ result.error = "WrongType"

----------------------------------------------------------------------------
(* Properties of one insertion *)

\* The paths at which the document m holds a leaf
RECURSIVE LeafPaths(_)
LeafPaths(m) ==
    {<<k>> : k \in {x \in DOMAIN m : m[x].kind = "Str"}}
        \cup UNION {{<<k>> \o q : q \in LeafPaths(m[k].table)} :
                        k \in {x \in DOMAIN m : m[x].kind = "Table"}}

\* C11: frame of an insertion. Every path q that resolved to a leaf before
\* insert_nested_key(root, p, v), with q no prefix of p and p no prefix of q,
\* resolves to the same leaf afterwards; siblings under an existing table stay.
C11_InsertFrame ==
    [][\A q \in LeafPaths(root) :
           ~Related(q, Path(kvs'[Len(kvs')][1]))
               => Resolve(root', q) = Resolve(root, q)]_vars

\* Two settings under the same table, on paths that differ in a later segment:
\* the second insert went into the existing table and the first leaf is kept
C11_Witness ==
    /\ Len(kvs) = 2
    /\ Len(Path(KeyAt(1))) = 2
    /\ Len(Path(KeyAt(2))) = 2
    /\ Path(KeyAt(1))[1] = Path(KeyAt(2))[1]
    /\ Path(KeyAt(1))[2] # Path(KeyAt(2))[2]
    /\ Resolve(root, Path(KeyAt(1))) = Str(ValAt(1))
    /\ Resolve(root, Path(KeyAt(2))) = Str(ValAt(2))

\* Whether the paths of two keys are not prefix-related, for every pair of keys
UnrelatedKeys ==
    [pair \in Keys \X Keys |-> ~Related(Path(pair[1]), Path(pair[2]))]

PairwiseUnrelated ==
    \A a, b \in 1..Len(kvs) : a < b => UnrelatedKeys[<<KeyAt(a), KeyAt(b)>>]

\* The settings s with the ones at positions i and i + 1 exchanged
SwapAt(s, i) ==
    [a \in 1..Len(s) |->
        IF a = i THEN s[i + 1] ELSE IF a = i + 1 THEN s[i] ELSE s[a]]

\* C12: order independence of unrelated keys. From any document (the fold of
\* the settings before position i), two settings whose paths are not
\* prefix-related give the same document in either order, and so do the
\* settings folded after them. Every permutation of an input with pairwise
\* unrelated paths is a chain of such exchanges of neighbours, each of them a
\* state of the fold, so permuting that input does not change the document.
C12_OrderIndependence ==
    \A i \in 1..(Len(kvs) - 1) :
        UnrelatedKeys[<<KeyAt(i), KeyAt(i + 1)>>]
            => root = FoldSettings(EmptyMap, SwapAt(kvs, i))

\* Two unrelated settings under one table, folded into a document that held a
\* leaf where that table now is
C12_Witness ==
    /\ Len(kvs) = 3
    /\ Len(Path(KeyAt(1))) = 1
    /\ IsPrefix(Path(KeyAt(1)), Path(KeyAt(2)))
    /\ IsPrefix(Path(KeyAt(1)), Path(KeyAt(3)))
    /\ ~Related(Path(KeyAt(2)), Path(KeyAt(3)))
    /\ Resolve(root, Path(KeyAt(2))) = Str(ValAt(2))
    /\ Resolve(root, Path(KeyAt(3))) = Str(ValAt(3))

\* Three settings on pairwise unrelated paths
C12_PermutationReached ==
    Len(kvs) = 3 /\ PairwiseUnrelated

====
